---- MODULE Spec2Model ----
(***************************************************************************)
(* Verification development for dragonglass: the attestation verifier      *)
(* (internal/attestation), the OCI referrer discovery (internal/oci) and   *)
(* the add command (internal/cmd/install).                                 *)
(*                                                                         *)
(* Strings whose bytes matter (builder ids) are sequences of one-character *)
(* strings, so that Go's == is TLA+ equality of sequences.                 *)
(***************************************************************************)
EXTENDS Integers, Sequences, FiniteSets, TLC

\* ------------------------------------------------------------------------
\* Bounds of the model
\* ------------------------------------------------------------------------
MaxReferrers == 2

\* Largest reading of the clock (time.Now) the lockfile operations are followed to.
MaxTime == 4

\* The last reading of the clock of a device-flow poll, in units of 5 seconds.
MaxPollTime == 5

\* ------------------------------------------------------------------------
\* Program constants
\* ------------------------------------------------------------------------
SLSAPredicateV1 == "https://slsa.dev/provenance/v1"

SBOMPredicateV2 == "https://spdx.dev/Document/v2.3"

SBOMPredicateV3 == "https://spdx.dev/Document/v3.0"

BundleMediaType == "application/vnd.dev.sigstore.bundle.v0.3+json"

OtherMediaType == "application/octet-stream"

\* ------------------------------------------------------------------------
\* Values
\* ------------------------------------------------------------------------
\* Manifest digests the registry can resolve the tag to.
D1 == "sha256:aa"

D2 == "sha256:bb"

Digests == {D1, D2}

EmptyStr == <<>>

\* The caller-supplied trusted builder and byte-level variants of it.
TrustedURI == <<"B", "u">>

TrailingSlashURI == <<"B", "u", "/">>

TrailingNewlineURI == <<"B", "u", "\n">>

LowerCaseURI == <<"b", "u">>

OtherURI == <<"X">>

\* The JSON value of a statement's predicate.  k is its shape: "provenance" a
\* JSON object that unmarshals as SLSA v1 Provenance, "spdx" a JSON object with
\* a packages array, "scalar" a JSON value that is not an object.
Pred(k, buildDef, builder, packages) ==
    [k |-> k, buildDef |-> buildDef, builder |-> builder, packages |-> packages]

SlsaPred(builder) == Pred("provenance", TRUE, builder, 0)

SlsaNoBuildDef(builder) == Pred("provenance", FALSE, builder, 0)

SpdxPred(n) == Pred("spdx", FALSE, EmptyStr, n)

ScalarPred == Pred("scalar", FALSE, EmptyStr, 0)

\* AttestationData{PredicateType, Predicate}
AttestationData(ptype, pred) == [PredicateType |-> ptype, Predicate |-> pred]

\* A referrer of a subject manifest, as the registry serves it: the descriptor's
\* predicate-type annotation ("" when absent), what fetching does, the media
\* types of the referrer manifest's layers, and the content of the bundle layer:
\* body is "bundle" (JSON of a sigstore bundle), "raw" (other well-formed JSON),
\* "garbage" (not JSON) or "readfail" (the stream breaks); sigOK says whether
\* the bundle passes sigstore verification of signature, certificate chain,
\* SCT, transparency log and identity; subject is the digest its statement lists.
Referrer(annot, fetch, layers, body, sigOK, subject, ptype, pred) ==
    [annot |-> annot, fetch |-> fetch, layers |-> layers, body |-> body,
     sigOK |-> sigOK, subject |-> subject, ptype |-> ptype, pred |-> pred]

SignedBundle(subject, ptype, pred) ==
    Referrer(SLSAPredicateV1, "ok", <<BundleMediaType>>, "bundle", TRUE, subject, ptype, pred)

RawJSON(ptype, pred) ==
    Referrer(SLSAPredicateV1, "ok", <<BundleMediaType>>, "raw", FALSE, D1, ptype, pred)

TrustedSLSA == SignedBundle(D1, SLSAPredicateV1, SlsaPred(TrustedURI))

VerifyingSBOM == SignedBundle(D1, SBOMPredicateV2, SpdxPred(1))

\* The statements a bundle or a raw document can carry.
Payloads ==
    { <<SLSAPredicateV1, SlsaPred(TrustedURI)>>,
      <<SLSAPredicateV1, SlsaPred(OtherURI)>>,
      <<SLSAPredicateV1, SlsaPred(TrailingSlashURI)>>,
      <<SLSAPredicateV1, SlsaPred(TrailingNewlineURI)>>,
      <<SLSAPredicateV1, SlsaPred(LowerCaseURI)>>,
      <<SLSAPredicateV1, SlsaPred(EmptyStr)>>,
      <<SLSAPredicateV1, SlsaNoBuildDef(TrustedURI)>>,
      <<SLSAPredicateV1, ScalarPred>>,
      <<SBOMPredicateV2, SpdxPred(1)>>,
      <<SBOMPredicateV3, ScalarPred>>,
      <<"https://example.com/other", ScalarPred>> }

ReferrerKinds ==
    { SignedBundle(D1, p[1], p[2]) : p \in Payloads }
    \cup { SignedBundle(D2, SLSAPredicateV1, SlsaPred(TrustedURI)) }
    \cup { [TrustedSLSA EXCEPT !.sigOK = FALSE] }
    \cup { RawJSON(SLSAPredicateV1, SlsaPred(TrustedURI)),
           RawJSON(SBOMPredicateV2, SpdxPred(1)),
           RawJSON("", ScalarPred) }
    \cup { [TrustedSLSA EXCEPT !.body = b] : b \in {"garbage", "readfail"} }
    \cup { [TrustedSLSA EXCEPT !.fetch = "manifestfail"],
           [TrustedSLSA EXCEPT !.layers = <<>>],
           [TrustedSLSA EXCEPT !.layers = <<OtherMediaType, BundleMediaType>>] }
    \cup { [VerifyingSBOM EXCEPT !.annot = SBOMPredicateV2],
           [TrustedSLSA EXCEPT !.annot = ""] }

SeqsUpTo(S, n) == UNION { [1..k -> S] : k \in 0..n }

\* ------------------------------------------------------------------------
\* State
\* ------------------------------------------------------------------------
VARIABLES
    tagDigest,      \* registry: the digest the image reference's tag points to
    referrersOf,    \* registry: digest -> ordered referrers of that manifest
    validRef,       \* whether the image reference parses
    trustedBuilder, \* AttestationVerifier.trustedBuilder
    cmd,            \* the command that runs: "verify" or "add"
    strict,         \* cfg.Verification.StrictMode
    force,          \* the --force flag
    cancelledAt,    \* ctx: where the command stood when its context was cancelled
    pc,             \* position of the running command
    result,         \* VerificationResult under construction in VerifyAttestations
    readers,        \* attestationReaders returned by GetSLSAAttestations
    idx,            \* loop index over readers (1-based)
    attestations,   \* parsed []AttestationData
    resolves,       \* history: number of repo.Resolve calls made by VerifyAttestations
    bound,          \* history: <<digest a bundle was verified against, tag's digest then>>
    listing,        \* history: GetSLSAAttestations: "none", "ok", "fail", "apifail"
    manifestDigest, \* add: digest returned by client.GetManifest
    pluginDir,      \* vault: "absent", "old" or the digest whose files are installed
    lockfileData,   \* add: the in-memory lockfile, plugin id -> entry
    lockfileDisk,   \* vault: the persisted lockfile, plugin id -> entry
    addErr,         \* add: the error addPlugin returned, "" for nil
    vaultWrites,    \* history: plugin directories add removed or wrote
    lockfileSaves   \* history: SaveLockfile calls that wrote the file

VARIABLES
    clientIn,       \* registry client: what the registry serves for the call's reference
    clientOut,      \* registry client: what GetManifest or Pull returned to its caller
    refDigest,      \* registry: plugin id -> digest its lockfile reference resolves to
    installDirs,    \* vault: plugin id -> "absent", "old" or the digest installed
    installTodo,    \* install: ids the range over lockfileData.Plugins has not visited
    installCur,     \* install: the id being installed, "" before the first
    installLog,     \* history: <<id, digest resolved, digest pinned>> of each extraction
    lf,             \* lockfile package: the *Lockfile value the caller holds
    now,            \* lockfile package: the reading of time.Now
    file,           \* lockfile package: the file at lockfilePath
    savePending,    \* SaveLockfile: the marshalled data between open and write
    loadedFrom,     \* history: the document lf was loaded from and not changed since
    lastOp,         \* history: the last lockfile call, its error, the file before it
    readerSaw       \* another process: the error of its last LoadLockfile, "none" before

VARIABLES
    pollPc,         \* PollForAccessToken: "idle", "select", "request" or "returned"
    pollNow,        \* device flow: the clock, in units of 5 seconds
    deadline,       \* ctx: the clock reading at which ctx is done
    interval,       \* PollForAccessToken's interval parameter
    period,         \* ticker: its period
    nextTick,       \* ticker: the clock reading of its next tick
    tickReady,      \* ticker.C holds a tick not yet received
    reqStart,       \* the clock reading at which the request in flight was sent
    pollOut,        \* what PollForAccessToken returned, "none" before
    pollLog         \* history: each poll's issue time, ctx state, response, period after

regVars == <<tagDigest, referrersOf>>

pollVars == <<pollPc, pollNow, deadline, interval, period, nextTick, tickReady,
              reqStart, pollOut, pollLog>>

clientVars == <<clientIn, clientOut>>

installVars == <<refDigest, installDirs, installTodo, installCur, installLog>>

fileVars == <<lf, now, file, savePending, loadedFrom, lastOp, readerSaw>>

libVars == <<clientVars, installVars, fileVars, pollVars>>

cfgVars == <<validRef, trustedBuilder, cmd, strict, force, cancelledAt>>

verifyVars == <<result, readers, idx, attestations, resolves, bound, listing>>

addVars == <<manifestDigest, pluginDir, lockfileData, lockfileDisk, addErr,
             vaultWrites, lockfileSaves>>

vars == <<regVars, cfgVars, libVars, pc, verifyVars, addVars>>

\* SLSAResult; Digest is the zero value wherever verifySLSA does not assign it.
NoSLSA == [present |-> FALSE, Valid |-> FALSE, Builder |-> EmptyStr, Digest |-> ""]

NoSBOM == [present |-> FALSE, Valid |-> FALSE, Format |-> "", Components |-> 0]

\* result := &VerificationResult{Found: false, Valid: false, Errors: {}, Warnings: {}}
NewResult ==
    [Found |-> FALSE, Valid |-> FALSE, Errors |-> <<>>, Warnings |-> <<>>,
     SLSA |-> NoSLSA, SBOM |-> NoSBOM, ArtifactDigest |-> ""]

Warning(kind, i) == [kind |-> kind, idx |-> i]

\* The context of the command has not been cancelled.
NotCancelled == [pc |-> "", idx |-> 0]

\* ctx.Err() != nil: every registry call made with ctx fails from here on.
Cancelled == cancelledAt # NotCancelled

\* ------------------------------------------------------------------------
\* internal/oci: referrer discovery
\* ------------------------------------------------------------------------
\* extractBundleFromManifest: fetch the referrer manifest, take Layers[0],
\* require the bundle media type, fetch that layer.  err = "" on success.
extractBundleFromManifest(r) ==
    IF r.fetch = "manifestfail" THEN [err |-> "failed to fetch manifest", reader |-> r]
    ELSE IF Len(r.layers) = 0 THEN [err |-> "no layers found in attestation manifest", reader |-> r]
    ELSE IF r.layers[1] # BundleMediaType THEN [err |-> "unexpected layer media type", reader |-> r]
    ELSE IF r.fetch = "layerfail" THEN [err |-> "failed to fetch bundle layer", reader |-> r]
    ELSE [err |-> "", reader |-> r]

\* The annotation test of GetSLSAAttestations' callback.
HasSLSAAnnotation(r) == r.annot # "" /\ r.annot = SLSAPredicateV1

\* GetSLSAAttestations' callback over the referrers, in order: an extraction
\* error of one referrer is returned, which fails the whole call.
RECURSIVE CollectReaders(_, _)
CollectReaders(refs, acc) ==
    IF refs = <<>> THEN [err |-> "", readers |-> acc]
    ELSE LET r == Head(refs) IN
         IF HasSLSAAnnotation(r)
         THEN LET e == extractBundleFromManifest(r) IN
              IF e.err # "" THEN [err |-> e.err, readers |-> <<>>]
              ELSE CollectReaders(Tail(refs), Append(acc, e.reader))
         ELSE CollectReaders(Tail(refs), acc)

GetSLSAAttestations(refs) == CollectReaders(refs, <<>>)

\* ------------------------------------------------------------------------
\* internal/attestation: bundle parsing and verification
\* ------------------------------------------------------------------------
\* strings.SplitN(artifactDigest, ":", 2) gives two parts and the second is hex:
\* true of every digest a registry resolve returns, false of "".
DigestParses(d) == d \in Digests

\* verifier.Verify(bundle, policy): the policy carries WithArtifactDigest when
\* the digest parses and WithoutArtifactUnsafe otherwise.
SigstoreVerify(b, artifactDigest) ==
    /\ b.sigOK
    /\ DigestParses(artifactDigest) => b.subject = artifactDigest

\* parseSignstoreBundle: verify, then extract the envelope's statement.
parseSignstoreBundle(b, artifactDigest) ==
    IF ~SigstoreVerify(b, artifactDigest)
    THEN [ok |-> FALSE, att |-> AttestationData(b.ptype, b.pred)]
    ELSE [ok |-> TRUE, att |-> AttestationData(b.ptype, b.pred)]

\* parseRawAttestation: json.Unmarshal of the bytes into {predicateType, predicate}.
parseRawAttestation(b) ==
    IF b.body = "garbage"
    THEN [ok |-> FALSE, att |-> AttestationData(b.ptype, b.pred)]
    ELSE [ok |-> TRUE, att |-> AttestationData(b.ptype, b.pred)]

\* Mutation of BindingDigest: the reference is resolved again for the binding.
BindingDigestOfTag(res, tag) == tag

\* The digest a bundle of this call is bound to: result.ArtifactDigest, set once
\* from the resolved descriptor.
BindingDigest(res, tag) == res.ArtifactDigest

\* One iteration of VerifyAttestations' loop over the readers (i is 1-based):
\* what is appended to attestations and to result.Warnings.
ReadOne(b, i, artifactDigest) ==
    IF b.body = "readfail"
    THEN [atts |-> <<>>, warns |-> <<Warning("failed to read attestation", i)>>]
    ELSE IF b.body = "bundle"
    THEN LET p == parseSignstoreBundle(b, artifactDigest) IN
         IF p.ok THEN [atts |-> <<p.att>>, warns |-> <<>>]
         ELSE [atts |-> <<>>, warns |-> <<Warning("failed to parse sigstore bundle", i)>>]
    ELSE LET p == parseRawAttestation(b) IN
         IF p.ok THEN [atts |-> <<p.att>>, warns |-> <<>>]
         ELSE [atts |-> <<>>, warns |-> <<Warning("failed to parse attestation", i)>>]

\* ------------------------------------------------------------------------
\* internal/attestation: predicate validation
\* ------------------------------------------------------------------------
\* protojson.Unmarshal(predicateBytes, &provenance)
ProvenanceUnmarshals(pred) == pred.k = "provenance"

\* provenance.Validate(): buildDefinition, runDetails and a non-empty builder id.
ProvenanceValidates(pred) == pred.buildDef /\ pred.builder # EmptyStr

TrimSlash(str) ==
    IF Len(str) > 0 /\ str[Len(str)] = "/" THEN SubSeq(str, 1, Len(str) - 1) ELSE str

\* Mutation of BuilderTrusted: a trailing slash is tolerated.
BuilderTrustedTrimmed(builder, trusted) ==
    trusted # EmptyStr /\ TrimSlash(builder) = TrimSlash(trusted)

\* v.trustedBuilder != "" && result.Builder == v.trustedBuilder
BuilderTrusted(builder, trusted) == trusted # EmptyStr /\ builder = trusted

\* verifySLSA: the first attestation of the list decides.
verifySLSA(atts, trusted) ==
    IF Len(atts) = 0 THEN [err |-> "", res |-> [NoSLSA EXCEPT !.present = TRUE]]
    ELSE LET pred == atts[1].Predicate IN
         IF ~ProvenanceUnmarshals(pred)
         THEN [err |-> "failed to unmarshal SLSA provenance",
               res |-> [NoSLSA EXCEPT !.present = TRUE]]
         ELSE IF ~ProvenanceValidates(pred)
         THEN [err |-> "in-toto validation failed",
               res |-> [NoSLSA EXCEPT !.present = TRUE]]
         ELSE [err |-> "",
               res |-> [present |-> TRUE,
                        Valid |-> BuilderTrusted(pred.builder, trusted),
                        Builder |-> pred.builder,
                        Digest |-> ""]]

\* GetAttestationDigest: the SLSA outcome's digest when there is an outcome,
\* the artifact digest otherwise.
GetAttestationDigest(res) ==
    IF res.SLSA.present THEN res.SLSA.Digest ELSE res.ArtifactDigest

\* normalizeDigest: a 64-character value without the "sha256:" prefix gets the
\* prefix ("aa" and "bb" stand for the bare hex of D1 and D2).
normalizeDigest(d) ==
    IF d = "aa" THEN D1 ELSE IF d = "bb" THEN D2 ELSE d

\* ValidateSubjectMatch(result, artifactDigest): "" for nil.
ValidateSubjectMatch(res, artifactDigest) ==
    LET attestationDigest == GetAttestationDigest(res) IN
    IF attestationDigest = "" THEN "no digest found in attestation"
    ELSE IF normalizeDigest(attestationDigest) # normalizeDigest(artifactDigest)
    THEN "digest mismatch"
    ELSE ""

\* att.Predicate.(map[string]any)
IsJSONObject(pred) == pred.k \in {"provenance", "spdx"}

SBOMFormat(ptype) ==
    IF ptype = SBOMPredicateV2 THEN "SPDX-2.3"
    ELSE IF ptype = SBOMPredicateV3 THEN "SPDX-3.0"
    ELSE "Unknown"

\* verifySBOM: the first attestation of the list decides.
verifySBOM(atts) ==
    IF Len(atts) = 0 THEN [NoSBOM EXCEPT !.present = TRUE]
    ELSE LET att == atts[1] IN
         [present |-> TRUE,
          Valid |-> IsJSONObject(att.Predicate),
          Format |-> SBOMFormat(att.PredicateType),
          Components |-> IF att.Predicate.k = "spdx" THEN att.Predicate.packages ELSE 0]

IsSLSA(att) == att.PredicateType = SLSAPredicateV1

IsSBOM(att) == att.PredicateType \in {SBOMPredicateV2, SBOMPredicateV3}

RECURSIVE UnknownWarnings(_)
UnknownWarnings(atts) ==
    IF atts = <<>> THEN <<>>
    ELSE (IF IsSLSA(Head(atts)) \/ IsSBOM(Head(atts)) THEN <<>>
          ELSE <<Warning("unknown predicate type", 0)>>) \o UnknownWarnings(Tail(atts))

\* VerifyAttestations after the reader loop: split by predicate type, verify
\* the SLSA and the SBOM attestations, fill the result.
Aggregate(res, atts, trusted) ==
    LET slsaAttestations == SelectSeq(atts, IsSLSA)
        sbomAttestations == SelectSeq(atts, IsSBOM)
        r1 == [res EXCEPT !.Warnings = @ \o UnknownWarnings(atts)]
        s == verifySLSA(slsaAttestations, trusted)
        r2 == IF Len(slsaAttestations) = 0 THEN r1
              ELSE IF s.err # "" THEN [r1 EXCEPT !.Errors = Append(@, "SLSA verification failed")]
              ELSE [r1 EXCEPT !.SLSA = s.res, !.Valid = (@ \/ s.res.Valid)]
        r3 == IF Len(sbomAttestations) = 0 THEN r2
              ELSE [r2 EXCEPT !.SBOM = verifySBOM(sbomAttestations)]
    IN r3

\* ------------------------------------------------------------------------
\* VerifyAttestations as a sequence of steps; the registry calls are the
\* points at which the registry can change under the call.
\* ------------------------------------------------------------------------
\* The registry re-points the tag to another manifest.
Repoint ==
    /\ \E d \in Digests \ {tagDigest} : tagDigest' = d
    /\ UNCHANGED <<referrersOf, cfgVars, libVars, pc, verifyVars, addVars>>

\* Mutation of InvalidReference: the reference is resolved before it is parsed.
InvalidReferenceLate ==
    /\ pc = "start"
    /\ ~validRef
    /\ resolves' = resolves + 1
    /\ result' = [result EXCEPT !.Errors = Append(@, "failed to resolve reference")]
    /\ pc' = "done"
    /\ UNCHANGED <<regVars, cfgVars, libVars, readers, idx, attestations, bound,
                   listing, addVars>>

\* registry.ParseReference fails: the result carries the error, no registry I/O.
InvalidReference ==
    /\ pc = "start"
    /\ ~validRef
    /\ result' = [result EXCEPT !.Errors = Append(@, "invalid image reference")]
    /\ pc' = "done"
    /\ UNCHANGED <<regVars, cfgVars, libVars, readers, idx, attestations, resolves, bound,
                   listing, addVars>>

\* repo.Resolve(ctx, ref.Reference) succeeds: result.ArtifactDigest = desc.Digest.
Resolve ==
    /\ pc = "start"
    /\ validRef
    /\ ~Cancelled
    /\ result' = [result EXCEPT !.ArtifactDigest = tagDigest]
    /\ resolves' = resolves + 1
    /\ pc' = "resolved"
    /\ UNCHANGED <<regVars, cfgVars, libVars, readers, idx, attestations, bound, listing, addVars>>

\* repo.Resolve fails (reference not found, network, auth).
ResolveFails ==
    /\ pc = "start"
    /\ validRef
    /\ result' = [result EXCEPT !.Errors = Append(@, "failed to resolve reference")]
    /\ resolves' = resolves + 1
    /\ pc' = "done"
    /\ UNCHANGED <<regVars, cfgVars, libVars, readers, idx, attestations, bound, listing, addVars>>

\* Mutation of NoReaders: Found is set before the emptiness test.
NoReadersFound(res) == [res EXCEPT !.Found = TRUE]

\* What VerifyAttestations returns when len(attestationReaders) == 0.
NoReaders(res) == res

\* repo.GetSLSAAttestations(ctx, desc) for the resolved descriptor, then the
\* len(attestationReaders) == 0 test and result.Found = true.
ListReferrers ==
    /\ pc = "resolved"
    /\ ~Cancelled
    /\ LET g == GetSLSAAttestations(referrersOf[result.ArtifactDigest]) IN
       IF g.err # ""
       THEN /\ result' = [result EXCEPT !.Errors = Append(@, "failed to get attestations")]
            /\ listing' = "fail"
            /\ pc' = "done"
            /\ UNCHANGED readers
       ELSE IF Len(g.readers) = 0
       THEN /\ result' = NoReaders(result)
            /\ listing' = "ok"
            /\ pc' = "done"
            /\ UNCHANGED readers
       ELSE /\ result' = [result EXCEPT !.Found = TRUE]
            /\ listing' = "ok"
            /\ readers' = g.readers
            /\ pc' = "reading"
    /\ UNCHANGED <<regVars, cfgVars, libVars, idx, attestations, resolves, bound, addVars>>

\* The referrers API call itself fails.
ListReferrersFails ==
    /\ pc = "resolved"
    /\ result' = [result EXCEPT !.Errors = Append(@, "failed to get attestations")]
    /\ listing' = "apifail"
    /\ pc' = "done"
    /\ UNCHANGED <<regVars, cfgVars, libVars, readers, idx, attestations, resolves, bound, addVars>>

\* One iteration of the reader loop: io.ReadAll, then parse as a bundle or raw.
ReadAttestation ==
    /\ pc = "reading"
    /\ idx <= Len(readers)
    /\ LET d == BindingDigest(result, tagDigest)
           o == ReadOne(readers[idx], idx, d)
       IN /\ attestations' = attestations \o o.atts
          /\ result' = [result EXCEPT !.Warnings = @ \o o.warns]
          /\ bound' = IF readers[idx].body = "bundle"
                      THEN bound \cup {<<d, tagDigest>>} ELSE bound
    /\ idx' = idx + 1
    /\ UNCHANGED <<regVars, cfgVars, libVars, pc, readers, resolves, listing, addVars>>

\* After the loop: classification, verifySLSA, verifySBOM, return.
Finish ==
    /\ pc = "reading"
    /\ idx > Len(readers)
    /\ result' = Aggregate(result, attestations, trustedBuilder)
    /\ pc' = "done"
    /\ UNCHANGED <<regVars, cfgVars, libVars, readers, idx, attestations, resolves, bound,
                   listing, addVars>>

\* VerifyAttestations as a function of the referrers served for the resolved
\* digest: the composition of the steps above.
RECURSIVE ReadAll(_, _, _, _)
ReadAll(rs, i, digest, acc) ==
    IF i > Len(rs) THEN acc
    ELSE LET o == ReadOne(rs[i], i, digest) IN
         ReadAll(rs, i + 1, digest,
                 [atts |-> acc.atts \o o.atts, warns |-> acc.warns \o o.warns])

VerifyResolved(refs, digest, trusted) ==
    LET r0 == [NewResult EXCEPT !.ArtifactDigest = digest]
        g == GetSLSAAttestations(refs)
    IN IF g.err # "" THEN [r0 EXCEPT !.Errors = <<"failed to get attestations">>]
       ELSE IF Len(g.readers) = 0 THEN r0
       ELSE LET o == ReadAll(g.readers, 1, digest, [atts |-> <<>>, warns |-> <<>>]) IN
            Aggregate([r0 EXCEPT !.Found = TRUE, !.Warnings = o.warns], o.atts, trusted)

\* ------------------------------------------------------------------------
\* internal/registry: Client.GetManifest, Client.Pull, verifyDigest
\* ------------------------------------------------------------------------
\* Contents of a manifest or of a layer: two bits, so that contents differ in
\* one bit or in both.
Contents == BOOLEAN \X BOOLEAN

\* digest.FromBytes(content): SHA-256 of the bytes, taken as collision-free.
FromBytes(content) == [alg |-> "sha256", hex |-> content]

\* What the registry serves: the descriptor repo.Resolve returns for the
\* reference, the bytes repo.Fetch streams for it (the transport checks size and
\* header only, and all contents have one size), the digest of the layer
\* descriptor the served manifest lists, and the bytes served for that layer.
ClientInputs ==
    [manifestDesc : {FromBytes(c) : c \in Contents}, manifestBody : Contents,
     layerDesc : {FromBytes(c) : c \in Contents}, layerBody : Contents]

NoClientInput ==
    [manifestDesc |-> FromBytes(<<FALSE, FALSE>>), manifestBody |-> <<FALSE, FALSE>>,
     layerDesc |-> FromBytes(<<FALSE, FALSE>>), layerBody |-> <<FALSE, FALSE>>]

NoClientOutput == [op |-> "none", err |-> "", returned |-> {}]

\* A piece of content handed to the caller, with the descriptor digest it was
\* fetched by.
Fetched(desc, body) == [desc |-> desc, body |-> body]

\* verifyDigest(content, expected): "" for nil.
verifyDigest(content, expected) ==
    IF FromBytes(content) # expected THEN "digest mismatch" ELSE ""

\* Client.GetManifest: resolve, fetch, io.ReadAll, json.Unmarshal; returns the
\* manifest and manifestDesc.Digest.
GetManifest ==
    /\ cmd = "client"
    /\ clientOut.op = "none"
    /\ clientOut' = [op |-> "GetManifest", err |-> "",
                     returned |-> {Fetched(clientIn.manifestDesc, clientIn.manifestBody)}]
    /\ UNCHANGED <<regVars, cfgVars, pc, verifyVars, addVars, clientIn, installVars, fileVars, pollVars>>

\* Client.Pull: resolve, fetch and parse the manifest, then fetch every layer
\* and verifyDigest it against its descriptor.
Pull ==
    /\ cmd = "client"
    /\ clientOut.op = "none"
    /\ LET e == verifyDigest(clientIn.layerBody, clientIn.layerDesc) IN
       clientOut' =
          IF e # "" THEN [op |-> "Pull", err |-> "layer 0 digest verification failed",
                          returned |-> {}]
          ELSE [op |-> "Pull", err |-> "",
                returned |-> {Fetched(clientIn.manifestDesc, clientIn.manifestBody),
                              Fetched(clientIn.layerDesc, clientIn.layerBody)}]
    /\ UNCHANGED <<regVars, cfgVars, pc, verifyVars, addVars, clientIn, installVars, fileVars, pollVars>>

NoEntry == [present |-> FALSE, name |-> "", reference |-> "", digest |-> "", provenance |-> FALSE]

PluginIds == {"p1", "p2"}

EmptyLockfile == [p \in PluginIds |-> NoEntry]

OtherEntry ==
    [present |-> TRUE, name |-> "other", reference |-> "ghcr.io/o/other:1",
     digest |-> "sha256:cc", provenance |-> TRUE]

\* No call of the registry client is modelled.
NoClientCall ==
    /\ clientIn = NoClientInput
    /\ clientOut = NoClientOutput

\* ------------------------------------------------------------------------
\* internal/lockfile: the Lockfile value and its file
\* ------------------------------------------------------------------------
LockfileVersion == "1"

\* Lockfile.Validate over the entries.
Validate(plugins) ==
    \A p \in PluginIds :
        plugins[p].present =>
            plugins[p].name # "" /\ plugins[p].reference # "" /\ plugins[p].digest # ""

\* NewLockfile(vaultPath) at clock reading t.
NewLockfile(t) ==
    [Version |-> LockfileVersion, GeneratedAt |-> t, UpdatedAt |-> t,
     nilPlugins |-> FALSE, Plugins |-> EmptyLockfile, Metadata |-> "vault"]

\* A JSON document of the lockfile's shape: version "" for a missing key,
\* nullPlugins for a missing or null "plugins", stamped for the presence of the
\* two timestamp keys, extra for a key the Lockfile struct does not declare.
Document(version, nullPlugins, plugins, generated, updated, extra) ==
    [version |-> version, nullPlugins |-> nullPlugins, plugins |-> plugins,
     stamped |-> TRUE, generated_at |-> generated, updated_at |-> updated,
     metadata |-> "vault", extra |-> extra]

\* The zero time.Time a missing timestamp key leaves in the struct.
ZeroTime == 0

\* The time.Time a document's timestamp key decodes to.
DecodeTime(doc, t) == IF doc.stamped THEN t ELSE ZeroTime

\* json.Unmarshal(data, &lockfile): declared keys fill the struct, others are dropped.
Unmarshal(doc) ==
    [Version |-> doc.version, GeneratedAt |-> DecodeTime(doc, doc.generated_at),
     UpdatedAt |-> DecodeTime(doc, doc.updated_at), nilPlugins |-> doc.nullPlugins,
     Plugins |-> doc.plugins, Metadata |-> doc.metadata]

\* Mutation of MarshalIndent: saving stamps the update time.
MarshalIndentTouched(l) ==
    Document(l.Version, l.nilPlugins, l.Plugins, l.GeneratedAt, now, FALSE)

\* json.MarshalIndent(lockfile, "", "  "): the declared keys, a nil map as null.
MarshalIndent(l) ==
    Document(l.Version, l.nilPlugins, l.Plugins, l.GeneratedAt, l.UpdatedAt, FALSE)

\* Mutation of ValidateLockfile: the entries are not looked at.
ValidateLockfileHeaderOnly(l) ==
    IF l.Version = "" THEN "lockfile version is required"
    ELSE IF l.nilPlugins THEN "plugins map cannot be nil"
    ELSE ""

\* Lockfile.Validate on the whole value: "" for nil.
ValidateLockfile(l) ==
    IF l.Version = "" THEN "lockfile version is required"
    ELSE IF l.nilPlugins THEN "plugins map cannot be nil"
    ELSE IF ~Validate(l.Plugins) THEN "plugin field is required"
    ELSE ""

\* DefaultLockfilePerms = 0644
DefaultLockfilePerms == 420

\* The umasks a process that saves can run under: 022 and 077.
Umasks == {18, 63}

\* Bit i of a file mode.
Bit(mode, i) == (mode \div (2 ^ i)) % 2

\* The mode a file created with mode perm gets under a umask: perm &^ umask,
\* over the nine permission bits from bit i up.
RECURSIVE CreateMode(_, _, _)
CreateMode(perm, umask, i) ==
    IF i > 8 THEN 0
    ELSE (IF Bit(perm, i) = 1 /\ Bit(umask, i) = 0 THEN 2 ^ i ELSE 0)
         + CreateMode(perm, umask, i + 1)

\* The file at lockfilePath: absent, or holding data under a mode; complete is
\* false between the truncating open of os.WriteFile and the end of its write.
NoFile == [kind |-> "absent", doc |-> MarshalIndent(NewLockfile(0)), complete |-> FALSE,
           perm |-> 0]

FileOf(doc, complete, perm) ==
    [kind |-> "data", doc |-> doc, complete |-> complete, perm |-> perm]

\* The mode of the file after os.WriteFile's open with O_CREATE|O_TRUNC: perm
\* applies only to a file the open creates.
OpenMode(f, perm, umask) ==
    IF f.kind = "absent" THEN CreateMode(perm, umask, 0) ELSE f.perm

NoOp == [op |-> "none", id |-> "", err |-> "", before |-> NoFile]

NoDocument == [kind |-> "none", doc |-> MarshalIndent(NewLockfile(0))]

\* No call of the lockfile package is modelled.
NoLockfileCall ==
    /\ lf = NewLockfile(0)
    /\ now = 0
    /\ file = NoFile
    /\ savePending = NoDocument
    /\ loadedFrom = NoDocument
    /\ lastOp = NoOp
    /\ readerSaw = "none"

\* No install from the lockfile is modelled.
NoInstall ==
    /\ refDigest = [p \in PluginIds |-> D1]
    /\ installDirs = [p \in PluginIds |-> "absent"]
    /\ installTodo = {}
    /\ installCur = ""
    /\ installLog = {}

\* No device-flow poll is modelled.
NoPoll ==
    /\ pollPc = "idle"
    /\ pollNow = 0
    /\ deadline = 0
    /\ interval = 0
    /\ period = 0
    /\ nextTick = 0
    /\ tickReady = FALSE
    /\ reqStart = 0
    /\ pollOut = "none"
    /\ pollLog = <<>>

\* The state of the parts a command does not use.
InitLib ==
    /\ NoPoll
    /\ NoClientCall
    /\ NoInstall
    /\ NoLockfileCall

InitCommon ==
    /\ tagDigest = D1
    /\ cancelledAt = NotCancelled
    /\ result = NewResult
    /\ readers = <<>>
    /\ idx = 1
    /\ attestations = <<>>
    /\ resolves = 0
    /\ bound = {}
    /\ listing = "none"
    /\ manifestDigest = ""
    /\ lockfileData = EmptyLockfile
    /\ addErr = ""
    /\ vaultWrites = 0
    /\ lockfileSaves = 0

Init ==
    /\ InitCommon
    /\ InitLib
    /\ cmd = "verify"
    /\ pc = "start"
    /\ \E refs \in SeqsUpTo(ReferrerKinds, MaxReferrers) :
          \/ validRef = TRUE /\ referrersOf = [d \in Digests |-> IF d = D1 THEN refs ELSE <<>>]
          \/ validRef = FALSE /\ refs = <<>> /\ referrersOf = [d \in Digests |-> <<>>]
    /\ trustedBuilder \in {TrustedURI, EmptyStr}
    /\ strict = FALSE
    /\ force = FALSE
    /\ pluginDir = "absent"
    /\ lockfileDisk = EmptyLockfile

\* ------------------------------------------------------------------------
\* internal/cmd/install: addPlugin
\* ------------------------------------------------------------------------
\* The statements the referrers of an add can carry: a smaller registry.
AddReferrerKinds ==
    { TrustedSLSA,
      SignedBundle(D1, SLSAPredicateV1, SlsaPred(OtherURI)),
      SignedBundle(D2, SLSAPredicateV1, SlsaPred(TrustedURI)),
      [TrustedSLSA EXCEPT !.sigOK = FALSE],
      RawJSON(SLSAPredicateV1, SlsaPred(TrustedURI)),
      [TrustedSLSA EXCEPT !.layers = <<>>],
      [VerifyingSBOM EXCEPT !.annot = SBOMPredicateV2] }

\* The id and name the plugin's metadata carries.
AddedPlugin == "p1"

\* Steps 1-5 up to the call of VerifyAttestations: client.GetManifest resolves
\* the reference on its own and returns the manifest with its digest.
AddGetManifest ==
    /\ cmd = "add"
    /\ pc = "add"
    /\ ~Cancelled
    /\ manifestDigest' = tagDigest
    /\ pc' = "start"
    /\ UNCHANGED <<regVars, cfgVars, libVars, verifyVars, pluginDir, lockfileData, lockfileDisk,
                   addErr, vaultWrites, lockfileSaves>>

\* Steps 1-5 fail before verification: registry client, manifest fetch,
\* metadata parsing or validation, token, verifier construction.
AddFailsEarly ==
    /\ cmd = "add"
    /\ pc = "add"
    /\ addErr' = "failed before verification"
    /\ pc' = "addDone"
    /\ UNCHANGED <<regVars, cfgVars, libVars, verifyVars, manifestDigest, pluginDir, lockfileData,
                   lockfileDisk, vaultWrites, lockfileSaves>>

\* Mutation of StrictRefuses: only missing attestations refuse.
StrictRefusesNotFound(s, res) == s /\ ~res.Found

\* cfg.Verification.StrictMode && (!attestationResult.Found || !attestationResult.Valid)
StrictRefuses(s, res) == s /\ (~res.Found \/ ~res.Valid)

\* The check of the verification result after VerifyAttestations returned.
AddCheck ==
    /\ cmd = "add"
    /\ pc = "done"
    /\ IF StrictRefuses(strict, result)
       THEN /\ addErr' = IF ~result.Found THEN "attestations not found (required in strict mode)"
                         ELSE "attestation verification failed (required in strict mode)"
            /\ pc' = "addDone"
       ELSE /\ pc' = "install"
            /\ UNCHANGED addErr
    /\ UNCHANGED <<regVars, cfgVars, libVars, verifyVars, manifestDigest, pluginDir, lockfileData,
                   lockfileDisk, vaultWrites, lockfileSaves>>

\* Steps 6-9: conflict check, removal of an existing directory under --force,
\* extraction of the fetched manifest's files, manifest.json.
AddInstall ==
    /\ cmd = "add"
    /\ pc = "install"
    /\ IF pluginDir # "absent" /\ ~force
       THEN /\ addErr' = "plugin directory already exists"
            /\ pc' = "addDone"
            /\ UNCHANGED <<pluginDir, vaultWrites>>
       ELSE /\ ~Cancelled
            /\ pluginDir' = manifestDigest
            /\ vaultWrites' = vaultWrites + 1
            /\ pc' = "lockfile"
            /\ UNCHANGED addErr
    /\ UNCHANGED <<regVars, cfgVars, libVars, verifyVars, manifestDigest, lockfileData, lockfileDisk,
                   lockfileSaves>>

\* Steps 6-9 fail: no .obsidian directory, or extraction or manifest.json fails
\* and the plugin directory is removed again.
AddInstallFails ==
    /\ cmd = "add"
    /\ pc = "install"
    /\ \/ /\ addErr' = "failed to find Obsidian directory"
          /\ UNCHANGED <<pluginDir, vaultWrites>>
       \/ /\ pluginDir = "absent" \/ force
          /\ addErr' = "failed to extract plugin files"
          /\ pluginDir' = "absent"
          /\ vaultWrites' = vaultWrites + 1
    /\ pc' = "addDone"
    /\ UNCHANGED <<regVars, cfgVars, libVars, verifyVars, manifestDigest, lockfileData, lockfileDisk,
                   lockfileSaves>>

\* The entry updateLockfile builds.
NewEntry(ref, digest) ==
    [present |-> TRUE, name |-> AddedPlugin, reference |-> ref, digest |-> digest,
     provenance |-> TRUE]

\* Step 10, updateLockfile: AddPlugin on the in-memory lockfile, SaveLockfile.
AddUpdateLockfile ==
    /\ cmd = "add"
    /\ pc = "lockfile"
    /\ LET updated == [lockfileData EXCEPT ![AddedPlugin] = NewEntry("ghcr.io/o/r:tag", manifestDigest)] IN
       /\ lockfileData' = updated
       /\ \/ /\ Validate(updated)
             /\ lockfileDisk' = updated
             /\ lockfileSaves' = lockfileSaves + 1
             /\ UNCHANGED addErr
          \/ /\ addErr' = "failed to update lockfile"
             /\ UNCHANGED <<lockfileDisk, lockfileSaves>>
    /\ pc' = "addDone"
    /\ UNCHANGED <<regVars, cfgVars, libVars, verifyVars, manifestDigest, pluginDir, vaultWrites>>

InitAdd ==
    /\ InitCommon
    /\ InitLib
    /\ cmd = "add"
    /\ pc = "add"
    /\ validRef = TRUE
    /\ \E refs \in SeqsUpTo(AddReferrerKinds, MaxReferrers) :
          referrersOf = [d \in Digests |-> IF d = D1 THEN refs ELSE <<>>]
    /\ trustedBuilder = TrustedURI
    /\ strict \in BOOLEAN
    /\ force \in BOOLEAN
    /\ pluginDir \in {"absent", "old"}
    /\ lockfileDisk \in {EmptyLockfile, [EmptyLockfile EXCEPT !["p2"] = OtherEntry]}

Next ==
    \/ Repoint
    \/ InvalidReference
    \/ Resolve
    \/ ResolveFails
    \/ ListReferrers
    \/ ListReferrersFails
    \/ ReadAttestation
    \/ Finish

Spec == Init /\ [][Next]_vars

NextAdd ==
    \/ Repoint
    \/ Resolve
    \/ ResolveFails
    \/ ListReferrers
    \/ ListReferrersFails
    \/ ReadAttestation
    \/ Finish
    \/ AddGetManifest
    \/ AddFailsEarly
    \/ AddCheck
    \/ AddInstall
    \/ AddInstallFails
    \/ AddUpdateLockfile

SpecAdd == InitAdd /\ [][NextAdd]_vars

\* ------------------------------------------------------------------------
\* Cancellation of the command's context (context.WithTimeout in addPlugin)
\* ------------------------------------------------------------------------
\* The context is cancelled while the command runs; where it stood is recorded.
Cancel ==
    /\ ~Cancelled
    /\ pc \in {"add", "start", "resolved", "reading", "done", "install", "lockfile"}
    /\ cancelledAt' = [pc |-> pc, idx |-> idx]
    /\ UNCHANGED <<regVars, validRef, trustedBuilder, cmd, strict, force, pc, verifyVars,
                   addVars, libVars>>

\* One iteration of the reader loop under a cancelled context: io.ReadAll of
\* the layer's body fails, a warning is appended and the loop continues.  The
\* loop has no test of ctx, so ReadAttestation stays possible as well (a body
\* already received is read in full).
ReadAttestationCancelled ==
    /\ pc = "reading"
    /\ idx <= Len(readers)
    /\ Cancelled
    /\ result' = [result EXCEPT
                     !.Warnings = Append(@, Warning("failed to read attestation", idx))]
    /\ idx' = idx + 1
    /\ UNCHANGED <<regVars, cfgVars, libVars, pc, readers, attestations, resolves, bound, listing,
                   addVars>>

InitCancel ==
    /\ InitCommon
    /\ InitLib
    /\ cmd = "add"
    /\ pc = "add"
    /\ validRef = TRUE
    /\ \E refs \in SeqsUpTo(AddReferrerKinds, MaxReferrers) :
          referrersOf = [d \in Digests |-> IF d = D1 THEN refs ELSE <<>>]
    /\ trustedBuilder = TrustedURI
    /\ strict \in BOOLEAN
    /\ force = TRUE
    /\ pluginDir = "absent"
    /\ lockfileDisk = EmptyLockfile

NextCancel ==
    \/ NextAdd
    \/ Cancel
    \/ ReadAttestationCancelled

SpecCancel == InitCancel /\ [][NextCancel]_vars

\* ------------------------------------------------------------------------
\* The registry client called on its own
\* ------------------------------------------------------------------------
InitClient ==
    /\ InitCommon
    /\ cmd = "client"
    /\ pc = "client"
    /\ validRef = TRUE
    /\ referrersOf = [d \in Digests |-> <<>>]
    /\ trustedBuilder = TrustedURI
    /\ strict = FALSE
    /\ force = FALSE
    /\ pluginDir = "absent"
    /\ lockfileDisk = EmptyLockfile
    /\ clientIn \in ClientInputs
    /\ clientOut = NoClientOutput
    /\ NoPoll
    /\ NoInstall
    /\ NoLockfileCall

NextClient ==
    \/ GetManifest
    \/ Pull

SpecClient == InitClient /\ [][NextClient]_vars

\* ------------------------------------------------------------------------
\* internal/cmd/install: runInstallFromLockfile, installPluginFromLockfileEntry
\* ------------------------------------------------------------------------
\* What the steps of install leave alone.
installFrame ==
    <<regVars, cfgVars, verifyVars, clientVars, fileVars, pollVars, pluginDir, lockfileDisk,
      vaultWrites, lockfileSaves>>

\* An entry of the lockfile install reads: plugin p pinned to digest d.
PinnedEntry(p, d) ==
    [present |-> TRUE, name |-> p, reference |-> "ghcr.io/o/" \o p \o ":tag", digest |-> d,
     provenance |-> TRUE]

\* The registry re-points the tag of a lockfile entry's reference.
RepointEntry ==
    /\ cmd = "install"
    /\ \E p \in PluginIds : \E d \in Digests \ {refDigest[p]} :
          refDigest' = [refDigest EXCEPT ![p] = d]
    /\ UNCHANGED <<installFrame, pc, manifestDigest, lockfileData, addErr, installDirs,
                   installTodo, installCur, installLog>>

\* lockfile.LoadLockfile, the len(lockfileData.Plugins) == 0 test and
\* findObsidianDirectory.
InstallLoad ==
    /\ cmd = "install"
    /\ pc = "install"
    /\ lockfileData' = lockfileDisk
    /\ installTodo' = {p \in PluginIds : lockfileDisk[p].present}
    /\ pc' = IF installTodo' = {} THEN "installDone" ELSE "installLoop"
    /\ UNCHANGED <<installFrame, manifestDigest, addErr, refDigest, installDirs, installCur,
                   installLog>>

\* No dragonglass directory, no lockfile, or no .obsidian directory.
InstallLoadFails ==
    /\ cmd = "install"
    /\ pc = "install"
    /\ addErr' = "failed to find directory or lockfile"
    /\ pc' = "installDone"
    /\ UNCHANGED <<installFrame, manifestDigest, lockfileData, installVars>>

\* One step of the range over lockfileData.Plugins (in any order): an existing
\* directory is skipped without --force and removed with it.
InstallVisit ==
    /\ cmd = "install"
    /\ pc = "installLoop"
    /\ \E p \in installTodo :
          /\ installTodo' = installTodo \ {p}
          /\ IF installDirs[p] # "absent" /\ ~force
             THEN UNCHANGED <<pc, installDirs, installCur, manifestDigest>>
             ELSE /\ installDirs' = [installDirs EXCEPT ![p] = "absent"]
                  /\ installCur' = p
                  /\ manifestDigest' = ""
                  /\ pc' = "installFetch"
    /\ UNCHANGED <<installFrame, lockfileData, addErr, refDigest, installLog>>

\* client.GetManifest(ctx, imageRef) in installPluginFromLockfileEntry: the
\* entry's reference is resolved and the manifest fetched.
InstallGetManifest ==
    /\ cmd = "install"
    /\ pc = "installFetch"
    /\ \/ /\ manifestDigest' = refDigest[installCur]
          /\ pc' = "installCheck"
          /\ UNCHANGED addErr
       \/ /\ addErr' = "failed to fetch manifest"
          /\ pc' = "installDone"
          /\ UNCHANGED manifestDigest
    /\ UNCHANGED <<installFrame, lockfileData, installVars>>

\* Mutation of DigestPinned: the comparison with the lockfile is dropped.
DigestPinnedUnchecked(digest, entry) == TRUE

\* manifestDigest != pluginEntry.OCIDigest, negated.
DigestPinned(digest, entry) == digest = entry.digest

\* The digest test, then extractPluginFilesFromManifest and
\* createPluginManifestFromLockfile.
InstallEntry ==
    /\ cmd = "install"
    /\ pc = "installCheck"
    /\ IF ~DigestPinned(manifestDigest, lockfileData[installCur])
       THEN /\ addErr' = "digest mismatch"
            /\ pc' = "installDone"
            /\ UNCHANGED <<installDirs, installLog>>
       ELSE /\ installDirs' = [installDirs EXCEPT ![installCur] = manifestDigest]
            /\ installLog' = installLog \cup
                   {<<installCur, manifestDigest, lockfileData[installCur].digest>>}
            /\ pc' = "installLoop"
            /\ UNCHANGED addErr
    /\ UNCHANGED <<installFrame, manifestDigest, lockfileData, refDigest, installTodo,
                   installCur>>

\* Extraction or manifest.json fails after the digest test passed: the plugin
\* directory is removed again.
InstallEntryFails ==
    /\ cmd = "install"
    /\ pc = "installCheck"
    /\ DigestPinned(manifestDigest, lockfileData[installCur])
    /\ addErr' = "failed to extract plugin files"
    /\ pc' = "installDone"
    /\ UNCHANGED <<installFrame, manifestDigest, lockfileData, installVars>>

\* The range is over: the summary is logged and nil returned.
InstallFinish ==
    /\ cmd = "install"
    /\ pc = "installLoop"
    /\ installTodo = {}
    /\ pc' = "installDone"
    /\ UNCHANGED <<installFrame, manifestDigest, lockfileData, addErr, installVars>>

InitInstall ==
    /\ InitCommon
    /\ NoPoll
    /\ NoClientCall
    /\ NoLockfileCall
    /\ cmd = "install"
    /\ pc = "install"
    /\ validRef = TRUE
    /\ referrersOf = [d \in Digests |-> <<>>]
    /\ trustedBuilder = TrustedURI
    /\ strict = FALSE
    /\ force \in BOOLEAN
    /\ pluginDir = "absent"
    /\ lockfileDisk \in
          [PluginIds -> {NoEntry} \cup {PinnedEntry(p, d) : p \in PluginIds, d \in Digests}]
    /\ \A p \in PluginIds : lockfileDisk[p].present => lockfileDisk[p].name = p
    /\ refDigest \in [PluginIds -> Digests]
    /\ installDirs \in [PluginIds -> {"absent", "old"}]
    /\ installTodo = {}
    /\ installCur = ""
    /\ installLog = {}

NextInstall ==
    \/ RepointEntry
    \/ InstallLoad
    \/ InstallLoadFails
    \/ InstallVisit
    \/ InstallGetManifest
    \/ InstallEntry
    \/ InstallEntryFails
    \/ InstallFinish

SpecInstall == InitInstall /\ [][NextInstall]_vars

\* ------------------------------------------------------------------------
\* internal/lockfile: AddPlugin, RemovePlugin, UpdatePluginVerification,
\* LoadLockfile, SaveLockfile
\* ------------------------------------------------------------------------
\* What the lockfile package leaves alone.
lockfileFrame == <<regVars, cfgVars, pc, verifyVars, addVars, clientVars, installVars, pollVars>>

\* The plugin ids and entry fields callers pass: with the file in play, one
\* id and entries with and without each required field; for the in-memory
\* mutations alone (pc = "entries"), two ids and two digests.
CallerIds == IF pc = "entries" THEN {"", "p1", "p2"} ELSE {"", "p1"}

CallerEntries ==
    IF pc = "entries"
    THEN [present : {TRUE}, name : {"", "p1"}, reference : {"ghcr.io/o/p1:tag"},
          digest : {D1, D2}, provenance : {TRUE}]
    ELSE [present : {TRUE}, name : {"", "p1"}, reference : {"", "ghcr.io/o/p1:tag"},
          digest : {"", D1}, provenance : {TRUE}]

OpResult(op, id, err) == [op |-> op, id |-> id, err |-> err, before |-> file]

\* Time passes: the next reading of time.Now is later.
Tick ==
    /\ cmd = "lockfile"
    /\ now < MaxTime
    /\ now' = now + 1
    /\ UNCHANGED <<lockfileFrame, lf, file, savePending, loadedFrom, lastOp, readerSaw>>

\* Mutation of Touch: the update time is left as it was.
TouchNever(l, t) == l

\* l.UpdatedAt = time.Now().UTC(), with t the reading of the clock.
Touch(l, t) == [l EXCEPT !.UpdatedAt = t]

\* Mutation of DeleteEntry: the map is emptied.
DeleteEvery(plugins, id) == EmptyLockfile

\* delete(l.Plugins, pluginID)
DeleteEntry(plugins, id) == [plugins EXCEPT ![id] = NoEntry]

\* Lockfile.AddPlugin(pluginID, plugin)
AddPlugin ==
    /\ cmd = "lockfile"
    /\ savePending = NoDocument
    /\ \E id \in CallerIds, plugin \in CallerEntries :
          IF id = ""
          THEN /\ lastOp' = OpResult("add", id, "plugin ID is required")
               /\ UNCHANGED <<lf, loadedFrom>>
          ELSE IF plugin.name = ""
          THEN /\ lastOp' = OpResult("add", id, "plugin name is required")
               /\ UNCHANGED <<lf, loadedFrom>>
          ELSE /\ lf' = Touch([lf EXCEPT !.Plugins[id] = plugin], now)
               /\ loadedFrom' = NoDocument
               /\ lastOp' = OpResult("add", id, "")
    /\ UNCHANGED <<lockfileFrame, now, file, savePending, readerSaw>>

\* Lockfile.RemovePlugin(pluginID)
RemovePlugin ==
    /\ cmd = "lockfile"
    /\ savePending = NoDocument
    /\ \E id \in PluginIds :
          IF ~lf.Plugins[id].present
          THEN /\ lastOp' = OpResult("remove", id, "plugin not found in lockfile")
               /\ UNCHANGED <<lf, loadedFrom>>
          ELSE /\ lf' = Touch([lf EXCEPT !.Plugins = DeleteEntry(lf.Plugins, id)], now)
               /\ loadedFrom' = NoDocument
               /\ lastOp' = OpResult("remove", id, "")
    /\ UNCHANGED <<lockfileFrame, now, file, savePending, readerSaw>>

\* Lockfile.UpdatePluginVerification(pluginID, verification)
UpdatePluginVerification ==
    /\ cmd = "lockfile"
    /\ savePending = NoDocument
    /\ \E id \in PluginIds, verified \in BOOLEAN :
          IF ~lf.Plugins[id].present
          THEN /\ lastOp' = OpResult("update", id, "plugin not found in lockfile")
               /\ UNCHANGED <<lf, loadedFrom>>
          ELSE /\ lf' = Touch([lf EXCEPT !.Plugins[id].provenance = verified], now)
               /\ loadedFrom' = NoDocument
               /\ lastOp' = OpResult("update", id, "")
    /\ UNCHANGED <<lockfileFrame, now, file, savePending, readerSaw>>

\* Mutation of LoadResult: what parses is returned without Validate.
LoadResultUnvalidated(f, t) ==
    IF f.kind = "absent" THEN [err |-> "", value |-> NewLockfile(t)]
    ELSE IF ~f.complete THEN [err |-> "failed to parse lockfile", value |-> NewLockfile(t)]
    ELSE [err |-> "", value |-> Unmarshal(f.doc)]

\* LoadLockfile(lockfilePath) on the file as it is at the time of the call.
LoadResult(f, t) ==
    IF f.kind = "absent" THEN [err |-> "", value |-> NewLockfile(t)]
    ELSE IF ~f.complete THEN [err |-> "failed to parse lockfile", value |-> NewLockfile(t)]
    ELSE IF ValidateLockfile(Unmarshal(f.doc)) # ""
    THEN [err |-> "invalid lockfile", value |-> NewLockfile(t)]
    ELSE [err |-> "", value |-> Unmarshal(f.doc)]

\* The process that holds lf loads the file.
LoadLockfile ==
    /\ cmd = "lockfile"
    /\ savePending = NoDocument
    /\ LET r == LoadResult(file, now) IN
       /\ lastOp' = OpResult("load", "", r.err)
       /\ IF r.err # "" THEN UNCHANGED <<lf, loadedFrom>>
          ELSE /\ lf' = r.value
               /\ loadedFrom' = IF file.kind = "absent" THEN NoDocument
                                 ELSE [kind |-> "data", doc |-> file.doc]
    /\ UNCHANGED <<lockfileFrame, now, file, savePending, readerSaw>>

\* Another process loads the file, at any moment.
ReaderLoads ==
    /\ cmd = "lockfile"
    /\ readerSaw' = LoadResult(file, now).err
    /\ UNCHANGED <<lockfileFrame, lf, now, file, savePending, loadedFrom, lastOp>>

\* SaveLockfile up to the open of os.WriteFile: Validate, MkdirAll,
\* MarshalIndent, then the file is created or truncated (O_CREATE|O_TRUNC).
SaveOpen ==
    /\ cmd = "lockfile"
    /\ savePending = NoDocument
    /\ IF ValidateLockfile(lf) # ""
       THEN /\ lastOp' = OpResult("save", "", "invalid lockfile")
            /\ UNCHANGED <<file, savePending>>
       ELSE /\ savePending' = [kind |-> "data", doc |-> MarshalIndent(lf)]
            /\ \E umask \in Umasks :
                  file' = FileOf(MarshalIndent(lf), FALSE,
                                 OpenMode(file, DefaultLockfilePerms, umask))
            /\ lastOp' = OpResult("saving", "", "")
    /\ UNCHANGED <<lockfileFrame, lf, now, loadedFrom, readerSaw>>

\* os.WriteFile writes the data and closes the file.
SaveWrite ==
    /\ cmd = "lockfile"
    /\ savePending # NoDocument
    /\ file' = FileOf(savePending.doc, TRUE, file.perm)
    /\ savePending' = NoDocument
    /\ lastOp' = [lastOp EXCEPT !.op = "save"]
    /\ UNCHANGED <<lockfileFrame, lf, now, loadedFrom, readerSaw>>

\* The write fails: the file stays as the open left it.
SaveWriteFails ==
    /\ cmd = "lockfile"
    /\ savePending # NoDocument
    /\ savePending' = NoDocument
    /\ lastOp' = [lastOp EXCEPT !.op = "save", !.err = "failed to write lockfile"]
    /\ UNCHANGED <<lockfileFrame, lf, now, file, loadedFrom, readerSaw>>

\* The documents a vault's lockfile can hold when the program starts.
InitialDocuments ==
    { [Document(v, FALSE, pl, 1, 1, extra) EXCEPT !.stamped = st] :
        v \in {LockfileVersion, ""},
        pl \in {EmptyLockfile, [EmptyLockfile EXCEPT !["p1"] = PinnedEntry("p1", D1)]},
        extra \in BOOLEAN, st \in BOOLEAN }

InitLockfile ==
    /\ InitCommon
    /\ NoPoll
    /\ NoClientCall
    /\ NoInstall
    /\ cmd = "lockfile"
    /\ pc = "lockfile"
    /\ validRef = TRUE
    /\ referrersOf = [d \in Digests |-> <<>>]
    /\ trustedBuilder = TrustedURI
    /\ strict = FALSE
    /\ force = FALSE
    /\ pluginDir = "absent"
    /\ lockfileDisk = EmptyLockfile
    /\ lf = NewLockfile(1)
    /\ now = 2
    /\ file \in {NoFile} \cup {FileOf(d, TRUE, 6 * 64) : d \in InitialDocuments}
    /\ savePending = NoDocument
    /\ loadedFrom = NoDocument
    /\ lastOp = NoOp
    /\ readerSaw = "none"

NextLockfile ==
    \/ AddPlugin
    \/ RemovePlugin
    \/ UpdatePluginVerification
    \/ LoadLockfile
    \/ ReaderLoads
    \/ SaveOpen
    \/ SaveWrite
    \/ SaveWriteFails
    \/ Tick

SpecLockfile == InitLockfile /\ [][NextLockfile]_vars

\* The in-memory mutations alone, on a new lockfile, with two plugin ids.
InitEntries ==
    /\ InitCommon
    /\ NoPoll
    /\ NoClientCall
    /\ NoInstall
    /\ cmd = "lockfile"
    /\ pc = "entries"
    /\ validRef = TRUE
    /\ referrersOf = [d \in Digests |-> <<>>]
    /\ trustedBuilder = TrustedURI
    /\ strict = FALSE
    /\ force = FALSE
    /\ pluginDir = "absent"
    /\ lockfileDisk = EmptyLockfile
    /\ lf = NewLockfile(1)
    /\ now = 1
    /\ file = NoFile
    /\ savePending = NoDocument
    /\ loadedFrom = NoDocument
    /\ lastOp = NoOp
    /\ readerSaw = "none"

NextEntries ==
    \/ AddPlugin
    \/ RemovePlugin
    \/ UpdatePluginVerification
    \/ Tick

SpecEntries == InitEntries /\ [][NextEntries]_vars

\* ------------------------------------------------------------------------
\* Device flow: PollForAccessToken
\* ------------------------------------------------------------------------
\* What a poll leaves alone.
pollFrame == <<regVars, cfgVars, pc, verifyVars, addVars, clientVars, installVars, fileVars>>

\* http.Client{Timeout: 10 * time.Second}, in units of 5 seconds.
ClientTimeout == 2

\* The interval parameter: deviceCode.Interval, 5 or 10 seconds.
Intervals == {1, 2}

\* The error codes of AccessTokenResponse.Error ("" for none), and "transport"
\* for a PostForm, ReadAll or ParseQuery that fails.
Responses ==
    {"", "authorization_pending", "slow_down", "expired_token", "access_denied",
     "unsupported_grant_type", "transport"}

\* ctx.Done() is closed.
CtxDone == pollNow >= deadline

\* Time passes by one unit while select blocks (no channel ready) or while
\* the request is in flight, up to the client's timeout; the ticker sends a
\* tick when its period elapses, into a channel that holds one.
PollTimePasses ==
    /\ pollNow < MaxPollTime
    /\ \/ pollPc = "select" /\ ~tickReady /\ ~CtxDone
       \/ pollPc = "request" /\ pollNow - reqStart < ClientTimeout
    /\ pollNow' = pollNow + 1
    /\ IF pollNow' >= nextTick
       THEN tickReady' = TRUE /\ nextTick' = nextTick + period
       ELSE UNCHANGED <<tickReady, nextTick>>
    /\ UNCHANGED <<pollFrame, pollPc, deadline, interval, period, reqStart, pollOut, pollLog>>

\* select: case <-ctx.Done().
SelectDone ==
    /\ pollPc = "select"
    /\ CtxDone
    /\ pollOut' = "authentication timed out"
    /\ pollPc' = "returned"
    /\ UNCHANGED <<pollFrame, pollNow, deadline, interval, period, nextTick, tickReady,
                   reqStart, pollLog>>

\* select: case <-ticker.C, up to client.PostForm.  With both channels ready
\* select takes either.
SelectTick ==
    /\ pollPc = "select"
    /\ tickReady
    /\ tickReady' = FALSE
    /\ reqStart' = pollNow
    /\ pollLog' = Append(pollLog, [at |-> pollNow, ctxDone |-> CtxDone, resp |-> "inflight",
                                   period |-> period])
    /\ pollPc' = "request"
    /\ UNCHANGED <<pollFrame, pollNow, deadline, interval, period, nextTick, pollOut>>

\* The ticker period after a response: ticker.Reset(interval*2) on slow_down.
PeriodAfter(resp, current, param) == IF resp = "slow_down" THEN param * 2 ELSE current

\* What the switch on tokenResp.Error returns: "" to continue the loop.
Outcome(resp) ==
    IF resp = "" THEN "token"
    ELSE IF resp \in {"authorization_pending", "slow_down"} THEN ""
    ELSE IF resp = "transport" THEN "failed to request access token"
    ELSE IF resp = "expired_token" THEN "device code expired, please try again"
    ELSE IF resp = "access_denied" THEN "access denied by user"
    ELSE "GitHub OAuth error"

\* The request ends: a response, or a transport failure (at the latest when
\* the client's timeout expires), and the switch on its error code.  Reset
\* restarts the ticker's period from now; a tick already in the channel stays
\* or is dropped, depending on the Go release.
Respond ==
    /\ pollPc = "request"
    /\ \E resp \in Responses, stale \in BOOLEAN :
          /\ pollNow - reqStart = ClientTimeout => resp = "transport"
          /\ period' = PeriodAfter(resp, period, interval)
          /\ pollLog' = [pollLog EXCEPT ![Len(pollLog)].resp = resp,
                                        ![Len(pollLog)].period = period']
          /\ IF resp = "slow_down"
             THEN /\ nextTick' = pollNow + period'
                  /\ tickReady' = (tickReady /\ stale)
             ELSE UNCHANGED <<nextTick, tickReady>>
          /\ IF Outcome(resp) = ""
             THEN pollPc' = "select" /\ UNCHANGED pollOut
             ELSE pollPc' = "returned" /\ pollOut' = Outcome(resp)
    /\ UNCHANGED <<pollFrame, pollNow, deadline, interval, reqStart>>

\* RunDeviceFlow: ctx with a deadline of ExpiresIn, then PollForAccessToken,
\* which starts its ticker with the interval.
InitPoll ==
    /\ InitCommon
    /\ NoClientCall
    /\ NoInstall
    /\ NoLockfileCall
    /\ cmd = "login"
    /\ pc = "poll"
    /\ validRef = TRUE
    /\ referrersOf = [d \in Digests |-> <<>>]
    /\ trustedBuilder = TrustedURI
    /\ strict = FALSE
    /\ force = FALSE
    /\ pluginDir = "absent"
    /\ lockfileDisk = EmptyLockfile
    /\ pollPc = "select"
    /\ pollNow = 0
    /\ deadline \in 2..(MaxPollTime - 1)
    /\ interval \in Intervals
    /\ period = interval
    /\ nextTick = interval
    /\ tickReady = FALSE
    /\ reqStart = 0
    /\ pollOut = "none"
    /\ pollLog = <<>>

NextPoll ==
    \/ PollTimePasses
    \/ SelectDone
    \/ SelectTick
    \/ Respond

SpecPoll == InitPoll /\ [][NextPoll]_vars

\* ------------------------------------------------------------------------
\* Properties
\* ------------------------------------------------------------------------
\* The referrers the registry serves for the digest this call resolved.
PinnedReferrers == referrersOf[result.ArtifactDigest]

\* VerifyAttestations has returned after a resolve and a referrer listing in
\* which the registry API itself did not fail.
Returned == pc = "done" /\ listing \in {"ok", "fail"}

\* r is a bundle that passes sigstore verification bound to digest d and
\* carries SLSA provenance of the trusted builder.
VerifiedTrustedProvenance(r, d) ==
    /\ r.body = "bundle"
    /\ r.sigOK
    /\ r.subject = d
    /\ r.ptype = SLSAPredicateV1
    /\ r.pred.k = "provenance"
    /\ r.pred.buildDef
    /\ r.pred.builder # EmptyStr
    /\ r.pred.builder = trustedBuilder

\* C1: whenever verify returns valid = true, some referrer of the resolved
\* digest is a sigstore bundle that passed cryptographic verification bound to
\* that digest and carries SLSA provenance of the trusted builder; unverified
\* raw JSON never makes the result valid.
C1_ValidOnlyFromVerifiedBundle ==
    (pc = "done" /\ result.Valid) =>
        \E i \in 1..Len(PinnedReferrers) :
            VerifiedTrustedProvenance(PinnedReferrers[i], result.ArtifactDigest)

\* att is SLSA provenance whose builder id matches the trusted builder.
MatchingProvenance(att) ==
    /\ IsSLSA(att)
    /\ att.Predicate.k = "provenance"
    /\ att.Predicate.buildDef
    /\ att.Predicate.builder # EmptyStr
    /\ att.Predicate.builder = trustedBuilder

\* C2: when verify located referrers, valid is true if and only if some SLSA
\* attestation among all those obtained, at any position, has a builder id
\* matching the trusted builder.
C2_ValidIffAnyProvenanceMatches ==
    (pc = "done" /\ result.Found) =>
        (result.Valid <=> \E i \in 1..Len(attestations) : MatchingProvenance(attestations[i]))

Perms(s) ==
    { [i \in 1..Len(s) |-> s[f[i]]] :
        f \in { g \in [1..Len(s) -> 1..Len(s)] :
                  \A i, j \in 1..Len(s) : i # j => g[i] # g[j] } }

\* C3: verify returns the same found and valid flags and the same SLSA and
\* SBOM validity for every ordering of the same referrers.
C3_OrderIndependent ==
    Returned =>
        \A p \in Perms(PinnedReferrers) :
            LET o == VerifyResolved(p, result.ArtifactDigest, trustedBuilder) IN
            /\ o.Found = result.Found
            /\ o.Valid = result.Valid
            /\ o.SLSA.Valid = result.SLSA.Valid
            /\ o.SBOM.Valid = result.SBOM.Valid

\* C4: a verify call resolves the reference once, before any bundle is
\* verified; every bundle is bound to the digest that resolve recorded; and the
\* returned result is the one determined by that digest and its referrers,
\* whatever the tag points to by then.
C4_PinnedDigestOnly ==
    /\ resolves <= 1
    /\ pc \in {"resolved", "reading"} => resolves = 1
    /\ bound # {} => resolves = 1
    /\ \A b \in bound : b[1] = result.ArtifactDigest
    /\ Returned =>
          result = VerifyResolved(PinnedReferrers, result.ArtifactDigest, trustedBuilder)

\* C4 witness: a call returned valid after verifying a bundle while the tag
\* pointed to another digest than the one resolved.
C4_Witness ==
    /\ Returned
    /\ result.Valid
    /\ \E b \in bound : b[2] # b[1]

\* r is a referrer whose bundle verifies against d and carries an SPDX document.
VerifyingSBOMReferrer(r, d) ==
    /\ r.fetch = "ok"
    /\ r.layers # <<>> /\ r.layers[1] = BundleMediaType
    /\ r.body = "bundle"
    /\ r.sigOK
    /\ r.subject = d
    /\ r.ptype \in {SBOMPredicateV2, SBOMPredicateV3}
    /\ r.annot = r.ptype
    /\ r.pred.k = "spdx"

\* C5: with a verifying SBOM referrer and no SLSA referrer, verify returns
\* found = true, valid = false and an SBOM outcome with valid = true.
C5_SBOMAlone ==
    ( /\ Returned
      /\ \E i \in 1..Len(PinnedReferrers) :
            VerifyingSBOMReferrer(PinnedReferrers[i], result.ArtifactDigest)
      /\ \A i \in 1..Len(PinnedReferrers) :
            VerifyingSBOMReferrer(PinnedReferrers[i], result.ArtifactDigest) )
    => /\ result.Found
       /\ ~result.Valid
       /\ result.SBOM.present
       /\ result.SBOM.Valid

\* C6: when the reference resolves and no referrer exists, verify returns
\* found = false and valid = false with no error and no warning, and nothing
\* was read, parsed or verified.
C6_NoReferrers ==
    (pc = "done" /\ listing = "ok" /\ Len(PinnedReferrers) = 0) =>
        /\ ~result.Found
        /\ ~result.Valid
        /\ result.Errors = <<>>
        /\ result.Warnings = <<>>
        /\ ~result.SLSA.present
        /\ ~result.SBOM.present
        /\ readers = <<>> /\ attestations = <<>> /\ idx = 1 /\ bound = {}

\* C6 witness: a call that resolved a digest without referrers has returned.
C6_Witness ==
    /\ pc = "done"
    /\ listing = "ok"
    /\ resolves = 1
    /\ result.ArtifactDigest \in Digests
    /\ Len(PinnedReferrers) = 0

\* A failure confined to the referrer r: a fetch that fails, no bundle layer,
\* or layer content that cannot be read or is not JSON.
ConfinedFailure(r) ==
    /\ r.annot = SLSAPredicateV1
    /\ \/ r.fetch # "ok"
       \/ \A k \in 1..Len(r.layers) : r.layers[k] # BundleMediaType
       \/ r.body \in {"garbage", "readfail"}

\* C7: of two referrers, one failing on its own and one a verifying SLSA
\* bundle of the trusted builder, the failure is a warning and the result is
\* found = true and valid = true.
C7_FailureIsWarning ==
    ( /\ Returned
      /\ Len(PinnedReferrers) = 2
      /\ \E i, j \in 1..2 :
            /\ i # j
            /\ ConfinedFailure(PinnedReferrers[i])
            /\ PinnedReferrers[j].annot = SLSAPredicateV1
            /\ PinnedReferrers[j].fetch = "ok"
            /\ PinnedReferrers[j].layers = <<BundleMediaType>>
            /\ VerifiedTrustedProvenance(PinnedReferrers[j], result.ArtifactDigest) )
    => /\ result.Found
       /\ result.Valid
       /\ result.Errors = <<>>
       /\ Len(result.Warnings) = 1

ToLower(str) == [i \in 1..Len(str) |-> IF str[i] = "B" THEN "b" ELSE str[i]]

\* Builder ids that differ from t only by a trailing slash, a trailing newline
\* or letter case.
NearMisses(t) == {t \o <<"/">>, t \o <<"\n">>, ToLower(t)} \ {t}

ProvenanceAttestations == SelectSeq(attestations, IsSLSA)

\* C8: the SLSA outcome verify returns is valid if and only if the builder id
\* of the provenance is present and equal, byte for byte, to the trusted
\* builder; a builder id that differs only by a trailing slash, a trailing
\* newline or letter case gives an outcome that is not valid, and no error.
C8_BuilderExact ==
    (pc = "done" /\ Len(ProvenanceAttestations) > 0) =>
        LET pred == ProvenanceAttestations[1].Predicate IN
        /\ result.SLSA.present =>
              /\ result.SLSA.Builder = pred.builder
              /\ result.SLSA.Valid <=>
                    (pred.builder # EmptyStr /\ pred.builder = trustedBuilder)
              /\ result.Valid = result.SLSA.Valid
        /\ (pred.k = "provenance" /\ pred.buildDef /\ pred.builder \in NearMisses(trustedBuilder)) =>
              /\ result.SLSA.present
              /\ ~result.SLSA.Valid
              /\ ~result.Valid
              /\ result.Errors = <<>>

\* C8 witness: a returned outcome for a builder id that is the trusted builder
\* plus a trailing slash.
C8_Witness ==
    /\ pc = "done"
    /\ trustedBuilder = TrustedURI
    /\ result.SLSA.present
    /\ result.SLSA.Builder = TrailingSlashURI
    /\ ~result.SLSA.Valid

\* add is past the check of the verification result.
PastCheck == cmd = "add" /\ pc \in {"install", "lockfile", "addDone"}

\* add wrote nothing: no plugin directory touched, no lockfile entry added or saved.
NothingInstalled ==
    /\ vaultWrites = 0
    /\ pluginDir \in {"absent", "old"}
    /\ lockfileData = EmptyLockfile
    /\ lockfileSaves = 0
    /\ ~lockfileDisk[AddedPlugin].present

\* C9: in strict mode, when the verification result has found = false or
\* valid = false, add returns an error and has written no plugin file and
\* added or saved no lockfile entry.
C9_StrictRefusal ==
    (PastCheck /\ strict /\ (~result.Found \/ ~result.Valid)) =>
        /\ pc = "addDone"
        /\ addErr # ""
        /\ NothingInstalled

\* C9 witness: a strict add ended after a verification that found attestations
\* none of which made the result valid.
C9_Witness ==
    /\ cmd = "add"
    /\ pc = "addDone"
    /\ strict
    /\ listing = "ok"
    /\ result.Found
    /\ ~result.Valid

\* The verification reported a bundle that failed sigstore verification.
CryptoErrorReported ==
    \E i \in 1..Len(result.Warnings) :
        result.Warnings[i].kind = "failed to parse sigstore bundle"

\* C10: in non-strict mode add refuses installation whenever verification
\* reported a cryptographic-integrity error: it writes no plugin file and no
\* lockfile entry and returns an error.
C10_NonStrictRefusesCryptoError ==
    (PastCheck /\ ~strict /\ CryptoErrorReported) =>
        /\ NothingInstalled
        /\ pc = "addDone" => addErr # ""

\* C11: add persists a lockfile entry for the plugin only if the verification
\* performed in that same add returned valid = true.
C11_EntryOnlyIfValid ==
    cmd = "add" /\ lockfileDisk[AddedPlugin].present => result.Valid

\* C12: an entry persisted in the vault's lockfile stays in the persisted
\* lockfile, unchanged, across an add of a different plugin id.
C12_OtherEntryKept ==
    [][\A p \in PluginIds \ {AddedPlugin} :
          lockfileDisk[p].present => lockfileDisk'[p] = lockfileDisk[p]]_vars

\* The context was cancelled between resolve and the referrer listing, or
\* between two referrers of the reader loop.
CancelObserved ==
    \/ cancelledAt.pc = "resolved"
    \/ cancelledAt.pc = "reading" /\ cancelledAt.idx <= Len(readers)

\* C13: a verify cancelled between resolve and the listing, or between
\* referrers, returns the distinguished Cancelled error, processes no further
\* referrer and adds or saves no lockfile entry.
C13_CancelledVerify ==
    CancelObserved /\ pc \in {"done", "install", "lockfile", "addDone"} =>
        /\ result.Errors = <<"Cancelled">>
        /\ idx = cancelledAt.idx
        /\ lockfileSaves = 0
        /\ lockfileData = EmptyLockfile

\* C14: every manifest and blob the registry client returns to its caller has
\* content whose computed digest equals the digest of the descriptor it was
\* fetched by.
C14_ReturnedContentMatchesDigest ==
    \A f \in clientOut.returned : FromBytes(f.body) = f.desc

\* C15: whenever verify returns a SLSA outcome, the outcome's digest field is
\* non-empty and equal to the resolved digest, and ValidateSubjectMatch against
\* the resolved digest succeeds.
C15_OutcomeCarriesSubjectDigest ==
    Returned /\ result.SLSA.present =>
        /\ result.SLSA.Digest # ""
        /\ result.SLSA.Digest = result.ArtifactDigest
        /\ ValidateSubjectMatch(result, result.ArtifactDigest) = ""

\* C16: install from the lockfile writes an entry's plugin files only if the
\* entry's reference resolved to exactly the digest pinned in the lockfile;
\* when it resolved to another digest the install fails with a digest-mismatch
\* error and no plugin file of that entry is written.
C16_InstallOnlyPinnedDigest ==
    /\ \A w \in installLog : w[2] = w[3] /\ w[3] = lockfileDisk[w[1]].digest
    /\ \A p \in PluginIds : installDirs[p] \in Digests => installDirs[p] = lockfileDisk[p].digest
    /\ cmd = "install" /\ pc \in {"installLoop", "installDone"} /\ installCur # ""
          /\ manifestDigest # "" /\ manifestDigest # lockfileData[installCur].digest
       => /\ addErr = "digest mismatch"
          /\ pc = "installDone"
          /\ installDirs[installCur] = "absent"
          /\ \A w \in installLog : w[1] # installCur

\* An entry was installed and the next one was refused for its digest.
C16_Witness ==
    /\ pc = "installDone"
    /\ addErr = "digest mismatch"
    /\ installLog # {}
    /\ refDigest[installCur] # lockfileData[installCur].digest

\* C17: starting from an empty lockfile, after any sequence of add, remove and
\* update-verification calls every entry of the lockfile has a non-empty name,
\* a non-empty pinned reference and a non-empty pinned digest.
C17_EntriesComplete ==
    cmd = "lockfile" =>
        \A p \in PluginIds :
            lf.Plugins[p].present =>
                /\ lf.Plugins[p].name # ""
                /\ lf.Plugins[p].reference # ""
                /\ lf.Plugins[p].digest # ""

\* C18: a reader that loads the lockfile concurrently with a save observes the
\* complete previous or the complete new document, never a truncated or
\* partially written file.
C18_ReaderSeesWholeDocument ==
    readerSaw # "failed to parse lockfile"

\* Two documents agree in schema version, timestamps, entries and metadata.
SameDocument(a, b) ==
    /\ a.version = b.version
    /\ DecodeTime(a, a.generated_at) = DecodeTime(b, b.generated_at)
    /\ DecodeTime(a, a.updated_at) = DecodeTime(b, b.updated_at)
    /\ a.nullPlugins = b.nullPlugins
    /\ a.plugins = b.plugins
    /\ a.metadata = b.metadata

WellFormedValue(l) ==
    /\ l.Version # ""
    /\ ~l.nilPlugins
    /\ \A p \in PluginIds :
          l.Plugins[p].present =>
              l.Plugins[p].name # "" /\ l.Plugins[p].reference # "" /\ l.Plugins[p].digest # ""

\* C20: save of a value that fails validate returns an error and leaves the
\* file at the target path unchanged; only a value that passes validate is
\* ever written.
C20_InvalidSaveLeavesFile ==
    /\ lastOp.op \in {"save", "saving"} /\ ~WellFormedValue(lf) =>
          lastOp.err = "invalid lockfile" /\ file = lastOp.before
    /\ lastOp.op \in {"save", "saving"} /\ file # lastOp.before =>
          WellFormedValue(Unmarshal(file.doc))

\* A value with an incomplete entry was refused over an existing file.
C20_Witness ==
    /\ lastOp.op = "save"
    /\ lastOp.err = "invalid lockfile"
    /\ ~WellFormedValue(lf)
    /\ lastOp.before.kind = "data"
    /\ file = lastOp.before

\* ------------------------------------------------------------------------
\* The in-memory mutations of the lockfile
\* ------------------------------------------------------------------------
Mutations == {"add", "remove", "update"}

\* A step that is a call of one of the three mutations.
MutationStep == lastOp'.op \in Mutations /\ <<lf, lastOp>>' # <<lf, lastOp>>

\* C21 as stated: every successful AddPlugin, RemovePlugin and
\* UpdatePluginVerification leaves UpdatedAt later than it was and GeneratedAt
\* as it was, and a failed one leaves UpdatedAt as it was.
C21_UpdateTimeLater ==
    [][MutationStep =>
         IF lastOp'.err = ""
         THEN lf'.UpdatedAt > lf.UpdatedAt /\ lf'.GeneratedAt = lf.GeneratedAt
         ELSE lf'.UpdatedAt = lf.UpdatedAt]_vars

\* C21: every successful AddPlugin, RemovePlugin and UpdatePluginVerification
\* sets UpdatedAt to the reading of the clock at the call, which is later than
\* the value before only if the clock has advanced past it, and leaves
\* GeneratedAt as it was; a failed one leaves UpdatedAt as it was.
C21_UpdateTimeIsClock ==
    [][MutationStep =>
         IF lastOp'.err = ""
         THEN /\ lf'.UpdatedAt = now
              /\ (now > lf.UpdatedAt => lf'.UpdatedAt > lf.UpdatedAt)
              /\ lf'.GeneratedAt = lf.GeneratedAt
         ELSE lf'.UpdatedAt = lf.UpdatedAt]_vars

\* A mutation succeeded after the clock advanced, and one succeeded before.
C21_Witness ==
    /\ pc = "entries"
    /\ lastOp.op \in Mutations /\ lastOp.err = ""
    /\ lf.UpdatedAt = now
    /\ lf.UpdatedAt > lf.GeneratedAt

\* C22: RemovePlugin of an id with no entry fails with the not-found error and
\* leaves the entries and UpdatedAt as they were; RemovePlugin of an id with an
\* entry removes that entry and leaves every other entry as it was.
C22_RemoveExactlyOne ==
    [][(MutationStep /\ lastOp'.op = "remove") =>
         IF ~lf.Plugins[lastOp'.id].present
         THEN /\ lastOp'.err = "plugin not found in lockfile"
              /\ lf'.Plugins = lf.Plugins
              /\ lf'.UpdatedAt = lf.UpdatedAt
         ELSE /\ lastOp'.err = ""
              /\ ~lf'.Plugins[lastOp'.id].present
              /\ \A p \in PluginIds \ {lastOp'.id} : lf'.Plugins[p] = lf.Plugins[p]]_vars

\* An entry was removed while another entry was there, which is still there.
C22_Witness ==
    /\ pc = "entries"
    /\ lastOp.op = "remove" /\ lastOp.err = ""
    /\ \E p \in PluginIds \ {lastOp.id} : lf.Plugins[p].present

\* C27: no AddPlugin and no UpdatePluginVerification changes the pinned digest
\* of an entry that exists; UpdatePluginVerification changes only the
\* verification state of its entry.
C27_PinnedDigestStays ==
    [][(MutationStep /\ lastOp'.op \in {"add", "update"}) =>
         /\ \A p \in PluginIds :
               lf.Plugins[p].present => lf'.Plugins[p].digest = lf.Plugins[p].digest
         /\ lastOp'.op = "update" =>
               \A p \in PluginIds :
                  lf'.Plugins[p] = [lf.Plugins[p] EXCEPT !.provenance = lf'.Plugins[p].provenance]]_vars

\* ------------------------------------------------------------------------
\* LoadLockfile
\* ------------------------------------------------------------------------
\* C23: LoadLockfile of a path with no file returns, with no error, a lockfile
\* with no entries and the current schema version; LoadLockfile of an existing
\* file returns a lockfile exactly when the file parses and the parsed value
\* passes Validate, that parsed value, and returns an error otherwise.
C23_LoadAbsentOrValid ==
    lastOp.op = "load" =>
        IF lastOp.before.kind = "absent"
        THEN /\ lastOp.err = ""
             /\ \A p \in PluginIds : ~lf.Plugins[p].present
             /\ lf.Version = LockfileVersion
        ELSE LET parsed == Unmarshal(lastOp.before.doc)
                 ok == lastOp.before.complete /\ WellFormedValue(parsed)
             IN /\ (lastOp.err = "") = ok
                /\ ok => lf = parsed

\* A complete file whose document fails Validate was refused.
C23_Witness ==
    /\ lastOp.op = "load"
    /\ lastOp.before.kind = "data" /\ lastOp.before.complete
    /\ ~WellFormedValue(Unmarshal(lastOp.before.doc))
    /\ lastOp.err = "invalid lockfile"

\* ------------------------------------------------------------------------
\* SaveLockfile: the mode of the file
\* ------------------------------------------------------------------------
\* C24: after every successful SaveLockfile the file has mode 0600: read and
\* write for the owner, no bit for group or others.
C24_SavedFileOwnerOnly ==
    lastOp.op = "save" /\ lastOp.err = "" =>
        /\ file.kind = "data"
        /\ file.perm \div 64 = 6
        /\ file.perm % 64 = 0

\* ------------------------------------------------------------------------
\* VerifyAttestations: the image reference
\* ------------------------------------------------------------------------
\* C25: VerifyAttestations of an image reference that does not parse returns
\* Found = false, Valid = false and at least one error, and has by then made
\* no call to the registry: no resolve, no referrer listing, no bundle read.
C25_InvalidReferenceNoIO ==
    pc = "done" /\ cmd = "verify" /\ ~validRef =>
        /\ ~result.Found
        /\ ~result.Valid
        /\ Len(result.Errors) >= 1
        /\ resolves = 0
        /\ listing = "none"
        /\ readers = <<>>
        /\ bound = {}

\* VerifyAttestations returned for a reference that does not parse.
C25_Witness ==
    /\ pc = "done" /\ cmd = "verify"
    /\ ~validRef
    /\ result.Errors = <<"invalid image reference">>

\* ------------------------------------------------------------------------
\* addPlugin: the digest installed and the digest verified
\* ------------------------------------------------------------------------
\* C26: in add, the manifest digest written to the lockfile entry and the
\* manifest whose files are extracted are the digest that VerifyAttestations
\* resolved and bound the attestations to, also when the registry re-points
\* the tag between add's manifest fetch and the verification's resolve.
C26_InstalledIsVerifiedDigest ==
    cmd = "add" /\ result.ArtifactDigest \in Digests =>
        /\ lockfileDisk[AddedPlugin].present =>
               lockfileDisk[AddedPlugin].digest = result.ArtifactDigest
        /\ pluginDir \in Digests => pluginDir = result.ArtifactDigest

\* ------------------------------------------------------------------------
\* extractBundleFromManifest: the bundle layer
\* ------------------------------------------------------------------------
\* r's manifest can be fetched and one of its layers, at some index, has the
\* sigstore bundle media type.
HasBundleLayer(r) ==
    /\ r.fetch = "ok"
    /\ \E k \in 1..Len(r.layers) : r.layers[k] = BundleMediaType

\* C28: the bundle of an attestation manifest is read from its first layer of
\* media type application/vnd.dev.sigstore.bundle.v0.3+json, at whatever index:
\* when every provenance referrer has such a layer, the listing raises no
\* missing-bundle-layer error and yields one reader for each of them.
C28_BundleLayerAtAnyIndex ==
    ( /\ listing \in {"ok", "fail"}
      /\ \A i \in 1..Len(PinnedReferrers) :
            HasSLSAAnnotation(PinnedReferrers[i]) => HasBundleLayer(PinnedReferrers[i]) )
    => /\ listing = "ok"
       /\ readers = SelectSeq(PinnedReferrers, HasSLSAAnnotation)

\* ------------------------------------------------------------------------
\* PollForAccessToken
\* ------------------------------------------------------------------------
\* The error codes on which the loop continues.
KeepPolling == {"authorization_pending", "slow_down"}

\* C29: PollForAccessToken returns a token only from a response with no error
\* code, polls again only after authorization_pending or slow_down, returns an
\* error on any other error code or a transport failure, returns the timeout
\* error only when ctx is done, and issues no poll once ctx is done.
C29_PollStopsWhenDone ==
    /\ pollOut = "token" => pollLog[Len(pollLog)].resp = ""
    /\ \A i \in 1..Len(pollLog) :
          (i < Len(pollLog) \/ pollPc = "select") => pollLog[i].resp \in KeepPolling
    /\ \A i \in 1..Len(pollLog) :
          pollLog[i].resp \notin KeepPolling \cup {"", "inflight"} =>
              /\ pollPc = "returned"
              /\ pollOut \notin {"none", "token", "authentication timed out"}
    /\ pollOut = "authentication timed out" => CtxDone
    /\ \A i \in 1..Len(pollLog) : ~pollLog[i].ctxDone

\* The ticker period in effect when poll i was issued.
PeriodBefore(i) == IF i = 1 THEN interval ELSE pollLog[i - 1].period

\* C30: each slow_down response leaves the polling interval at twice the
\* interval in effect before it, no response lowers the interval, and no
\* poll is issued sooner after the previous one (or after the start) than the
\* interval in effect.
C30_SlowDownDoubles ==
    \A i \in 1..Len(pollLog) :
        /\ pollLog[i].resp = "slow_down" => pollLog[i].period = 2 * PeriodBefore(i)
        /\ pollLog[i].period >= PeriodBefore(i)
        /\ pollLog[i].at - (IF i = 1 THEN 0 ELSE pollLog[i - 1].at) >= PeriodBefore(i)

====
